---- MODULE Spec2Model ----
(***************************************************************************)
(* Notification lifecycle and notification-center routing of the shell.    *)
(*                                                                         *)
(* The shell subscribes to the notification daemon's "notified" and        *)
(* "resolved" signals.  Three components keep their own lists:             *)
(*   - NotificationCenter (newNotifications, pastNotifications),           *)
(*   - the popup view Notifications, in two revisions: one with a 10 s     *)
(*     expiry timer and a computed window visibility (notifications,       *)
(*     timers, freshNotificationsVisible) and one without either           *)
(*     (notificationsNoExpiry, windowVisibleNoExpiry),                     *)
(*   - the older NotificationMap popup store (map, var, mapTimers), with   *)
(*     the static instance the noti-act request uses (instanceMap).        *)
(* The Binding of the reactive-state module (value, channel, subscribers)  *)
(* is modelled on its own.                                                 *)
(* The daemon is the environment: it emits notified(id, replaced) and      *)
(* resolved(id) for any id in any order; a notification's dismiss() makes  *)
(* it emit resolved(id) from within the call.                              *)
(*                                                                         *)
(* Signal emission and state setters are synchronous: all handlers of one  *)
(* daemon event run inside one action.  Timers share one delay, so they    *)
(* fire in the order they were scheduled (FIFO queues).  Spec runs the     *)
(* center and all popup stores side by side on one stream of daemon        *)
(* events; the stores share no state, and the expiry callbacks that two    *)
(* of them schedule at the same instant with the same delay run together.  *)
(***************************************************************************)
EXTENDS Integers, Sequences, FiniteSets, TLC

\* ---------------------------------------------------------------- bounds
MaxId == 2
MaxNotified == 3
MaxTime == 1
MaxMonitor == 2
MaxActions == 2
MaxMapNotified == 2
MaxValue == 2
MaxSets == 3
MaxSubscribers == 2
Tick == 1000
MaxClock == 8000
MaxChanges == 3
PercentScale == 5
MaxIcons == 6
MaxStrength == 100
StrengthStep == 50

\* timeout(3000, ...) and the elapsed time its callback asks for, in ms
FadeDelay == 3000
FadeThreshold == 3000

\* the divisor written in getNetworkIcon, and NETWORK_WIFI_ICONS.connected.length
StrengthDivisor == 100
WifiIcons == 5

Ids == 1..MaxId
Monitors == 1..MaxMonitor

VARIABLES
  serial,                      \* number of notified events emitted so far
  now,                         \* last value read from Date.now() / 1000
  newNotifications,            \* center: active list
  pastNotifications,           \* center: history
  notifications,               \* popup (expiry revision): list
  timers,                      \* popup (expiry revision): pending setTimeout callbacks
  freshNotificationsVisible,   \* popup (expiry revision): window visible
  notificationsNoExpiry,       \* popup (older revision): list
  windowVisibleNoExpiry,       \* popup (older revision): window visible
  notificationCenterVisible,
  notificationCenterMonitor,
  emitted,                     \* (visible, monitor) seen by subscribers at each emission of the last action
  map,                         \* NotificationMap.map, in insertion order
  var,                         \* NotificationMap.var
  mapTimers,                   \* NotificationMap: pending timeout(TIMEOUT_DELAY) callbacks
  calls,                       \* daemon calls made by the last action
  last,                        \* the last event handled
  daemon,                      \* number of actions of the daemon's notification per id, -1: none
  instanceMade,                \* NotificationMap.instance is set
  instanceMap,                 \* the map of NotificationMap.instance
  instanceTimers,              \* pending timeout callbacks of NotificationMap.instance
  activateDeletes,             \* the copy of activateTopNotification that also deletes is in use
  response,                    \* the answer to the last request
  bindingValue,                \* Binding: the stored value (field value)
  channel,                     \* Binding: values sent and not yet received
  subscribers,                 \* Binding: number of subscribe() calls so far
  received,                    \* Binding: values each subscriber's callback was called with
  hasMapped,                   \* Binding::map was called
  mapped,                      \* the mapped Binding: its stored value
  mappedChannel,               \* the mapped Binding: values sent
  sets,                        \* Binding: number of set() calls so far
  cleanedUp,                   \* popup (expiry revision): its onCleanup callback has run
  daemonNotifications,         \* what notifd.get_notifications() returns
  centerStarted,               \* center (revision without history): the component is constructed
  newNotificationsNoHistory,   \* center (revision without history): list
  unreadCount,                 \* NotificationTile: unreadCount
  extraClasses,                \* volume / brightness: "dim" or "bright"
  lastChangeTime,              \* volume / brightness: lastChangeTime, in ms
  fadeTimers,                  \* volume / brightness: due times of the pending timeout(3000) callbacks
  clock,                       \* Date.now(), in ms
  changes,                     \* volume / brightness: number of value changes so far
  percentage,                  \* percentageToIconFromList: the percentage argument, in units of 1 / PercentScale
  listLength,                  \* percentageToIconFromList: icons.length
  index,                       \* percentageToIconFromList: the index computed
  network,                     \* getNetworkIcon: connectivity, primary and state
  strength,                    \* getNetworkIcon: wifi.strength
  networkIcon                  \* getNetworkIcon: the icon returned

vars == <<serial, now, newNotifications, pastNotifications,
          notifications, timers, freshNotificationsVisible,
          notificationsNoExpiry, windowVisibleNoExpiry,
          notificationCenterVisible, notificationCenterMonitor, emitted,
          map, var, mapTimers, calls, last,
          daemon, instanceMade, instanceMap, instanceTimers, activateDeletes, response,
          bindingValue, channel, subscribers, received, hasMapped, mapped, mappedChannel, sets,
          cleanedUp, daemonNotifications, centerStarted, newNotificationsNoHistory, unreadCount,
          extraClasses, lastChangeTime, fadeTimers, clock, changes,
          percentage, listLength, index, network, strength, networkIcon>>

centerVars == <<newNotifications, pastNotifications>>
popupVars == <<notifications, timers, freshNotificationsVisible>>
oldPopupVars == <<notificationsNoExpiry, windowVisibleNoExpiry>>
routeVars == <<notificationCenterVisible, notificationCenterMonitor>>
mapVars == <<map, var, mapTimers>>
instanceVars == <<daemon, instanceMade, instanceMap, instanceTimers, activateDeletes, response>>
bindingVars == <<bindingValue, channel, subscribers, received, hasMapped, mapped, mappedChannel, sets>>
variantVars == <<daemonNotifications, centerStarted, newNotificationsNoHistory, unreadCount>>
fadeVars == <<extraClasses, lastChangeTime, fadeTimers, clock, changes>>
iconVars == <<percentage, listLength, index, network, strength, networkIcon>>
widgetVars == <<cleanedUp, variantVars, fadeVars, iconVars>>
shellVars == <<serial, now, centerVars, popupVars, oldPopupVars, routeVars, mapVars,
               emitted, calls, instanceVars, bindingVars>>

\* ------------------------------------------------------- list primitives
\* An AstalNotifd.Notification object: every notified event delivers a new
\* object, identified here by the serial number of its event.
Notification(id, s, transient) == [id |-> id, serial |-> s, transient |-> transient]

\* ns.some((n) => n.id === id)
HasId(ns, id) == \E i \in 1..Len(ns) : ns[i].id = id

\* ns.map((n) => (n.id === id ? notification : n))
ReplaceById(ns, id, notification) ==
  [i \in 1..Len(ns) |-> IF ns[i].id = id THEN notification ELSE ns[i]]

\* [notification, ...ns]
Prepend(ns, notification) == <<notification>> \o ns

\* ns.filter((n) => n.id !== id)
RemoveById(ns, id) == SelectSeq(ns, LAMBDA n : n.id # id)

\* ns.find((n) => n.id === id), for a list that has the id
Find(ns, id) == ns[CHOOSE i \in 1..Len(ns) :
                     /\ ns[i].id = id
                     /\ \A j \in 1..(i-1) : ns[j].id # id]

Reverse(s) == [i \in 1..Len(s) |-> s[Len(s) + 1 - i]]

\* ------------------------------------------------- NotificationCenter
\* variant for comparison: a replace re-arrives at the front
CenterNotifiedMovesToFront(ns, id, replaced, notification) ==
  Prepend(IF replaced THEN RemoveById(ns, id) ELSE ns, notification)

\* notifiedHandler: replace in place when replaced and listed, else prepend
CenterNotifiedHandler(ns, id, replaced, notification) ==
  IF replaced /\ HasId(ns, id)
    THEN ReplaceById(ns, id, notification)
    ELSE Prepend(ns, notification)

\* variant for comparison: the record goes to the end of the history
CenterResolvedPastAppends(past, ns, id, t) ==
  IF HasId(ns, id) /\ ~Find(ns, id).transient
    THEN Append(past, [notification |-> Find(ns, id), resolvedAt |-> t])
    ELSE past

\* variant for comparison: the transient flag is not looked at
CenterResolvedPastKeepsTransient(past, ns, id, t) ==
  IF HasId(ns, id)
    THEN Prepend(past, [notification |-> Find(ns, id), resolvedAt |-> t])
    ELSE past

\* resolvedHandler, the history it leaves: a record of the found entry at
\* the front unless the entry is transient
CenterResolvedPast(past, ns, id, t) ==
  IF HasId(ns, id) /\ ~Find(ns, id).transient
    THEN Prepend(past, [notification |-> Find(ns, id), resolvedAt |-> t])
    ELSE past

\* variant for comparison: the resolved entry stays listed
CenterResolvedNewKeepsEntry(ns, id) == ns

\* resolvedHandler, the active list it leaves
CenterResolvedNew(ns, id) ==
  IF HasId(ns, id) THEN RemoveById(ns, id) ELSE ns

\* ------------------------------------------------- popup view (expiry revision)
\* variant for comparison: a new arrival goes to the end of the list
PopupNotifiedAppends(ns, id, replaced, notification) ==
  IF replaced /\ HasId(ns, id)
    THEN ReplaceById(ns, id, notification)
    ELSE Append(ns, notification)

\* notifiedHandler, the list it leaves
PopupNotifiedHandler(ns, id, replaced, notification) ==
  IF replaced /\ HasId(ns, id)
    THEN ReplaceById(ns, id, notification)
    ELSE Prepend(ns, notification)

\* variant for comparison: an id that is not listed empties the list
PopupResolvedClearsUnknown(ns, id) ==
  IF HasId(ns, id) THEN RemoveById(ns, id) ELSE <<>>

\* resolvedHandler, the list it leaves
PopupResolvedHandler(ns, id) == RemoveById(ns, id)

\* variant for comparison: the callback leaves the list as it is
PopupExpireKeeps(ns, id) == ns

\* the setTimeout callback
PopupExpire(ns, id) == RemoveById(ns, id)

\* createComputed([notifications, notificationCenterVisible], ...)
FreshVisible(ns, centerVisible) == Len(ns) > 0 /\ ~centerVisible

\* ------------------------------------------------- popup view (older revision)
OldPopupNotifiedHandler(ns, id, replaced, notification) ==
  IF replaced /\ HasId(ns, id)
    THEN ReplaceById(ns, id, notification)
    ELSE Prepend(ns, notification)

OldPopupResolvedHandler(ns, id) == RemoveById(ns, id)

\* visible={notifications((ns) => ns.length > 0)}
OldPopupVisible(ns) == Len(ns) > 0

\* ------------------------------------------------- notification tile
\* variant for comparison: a plain toggle that ignores the monitor
ToggleVisiblePlain(gdkmonitor, monitor, visible) == ~visible

\* the value toggleNotificationCenter passes to setNotificationCenterVisible
ToggleVisible(gdkmonitor, monitor, visible) ==
  gdkmonitor # monitor \/ ~visible

\* What the subscribers of the two states see during a toggle.  A setter
\* stores the value and calls the subscribers at once when the value
\* changed; each snapshot is the pair of states read at that moment.
ToggleEmissions(gdkmonitor, monitor, visible) ==
  LET v == ToggleVisible(gdkmonitor, monitor, visible) IN
    (IF v # visible THEN <<[visible |-> v, monitor |-> monitor]>> ELSE <<>>)
    \o (IF gdkmonitor # monitor THEN <<[visible |-> v, monitor |-> gdkmonitor]>> ELSE <<>>)

\* ------------------------------------------------- NotificationMap
MapHas(m, key) == \E i \in 1..Len(m) : m[i].key = key

\* Map.prototype.set: an existing key keeps its place, a new key goes last
MapSet(m, key, value) ==
  IF MapHas(m, key)
    THEN [i \in 1..Len(m) |-> IF m[i].key = key THEN [key |-> key, value |-> value] ELSE m[i]]
    ELSE Append(m, [key |-> key, value |-> value])

\* Map.prototype.delete
MapDelete(m, key) == SelectSeq(m, LAMBDA e : e.key # key)

\* variant for comparison: the values in insertion order
MapValuesInOrder(m) == [i \in 1..Len(m) |-> m[i].value]

\* notify(): [...this.map.values()].reverse()
MapValuesReversed(m) == Reverse([i \in 1..Len(m) |-> m[i].value])

\* ------------------------------------------------- initial state
Event(op, arg, replaced) == [op |-> op, arg |-> arg, replaced |-> replaced]

Init ==
  /\ serial = 0
  /\ now = 0
  /\ newNotifications = <<>>
  /\ pastNotifications = <<>>
  /\ notifications = <<>>
  /\ timers = <<>>
  /\ freshNotificationsVisible = FALSE
  /\ notificationsNoExpiry = <<>>
  /\ windowVisibleNoExpiry = FALSE
  /\ notificationCenterVisible = FALSE
  /\ notificationCenterMonitor = 1
  /\ emitted = <<>>
  /\ map = <<>>
  /\ var = <<>>
  /\ mapTimers = <<>>
  /\ calls = <<>>
  /\ last = Event("init", 0, FALSE)
  /\ daemon = [id \in Ids |-> -1]
  /\ instanceMade = FALSE
  /\ instanceMap = <<>>
  /\ instanceTimers = <<>>
  /\ activateDeletes = FALSE
  /\ response = ""
  /\ bindingValue = 0
  /\ channel = <<>>
  /\ subscribers = 0
  /\ received = <<>>
  /\ hasMapped = FALSE
  /\ mapped = 0
  /\ mappedChannel = <<>>
  /\ sets = 0
  /\ cleanedUp = FALSE
  /\ daemonNotifications = <<>>
  /\ centerStarted = FALSE
  /\ newNotificationsNoHistory = <<>>
  /\ unreadCount = 0
  /\ extraClasses = "dim"
  /\ lastChangeTime = 0
  /\ fadeTimers = <<>>
  /\ clock = 0
  /\ changes = 0
  /\ percentage = 0
  /\ listLength = 1
  /\ index = 0
  /\ strength = 0
  /\ network = [connectivity |-> "UNKNOWN", primary |-> "UNKNOWN", state |-> "UNKNOWN"]
  /\ networkIcon = [list |-> "wired.disabled", index |-> 0]

\* ------------------------------------------------- signal handlers, per component
\* NotificationCenter, "notified"
CenterOnNotified(id, replaced, notification) ==
  /\ newNotifications' = CenterNotifiedHandler(newNotifications, id, replaced, notification)
  /\ UNCHANGED <<now, pastNotifications>>

\* NotificationCenter, "resolved"; Date.now() is read for the history record
CenterOnResolved(id) ==
  /\ \E t \in now..MaxTime :
       /\ t = now \/ (HasId(newNotifications, id) /\ ~Find(newNotifications, id).transient)
       /\ now' = t
       /\ pastNotifications' = CenterResolvedPast(pastNotifications, newNotifications, id, t)
  /\ newNotifications' = CenterResolvedNew(newNotifications, id)

\* Notifications (expiry revision), "notified": update the list, start the timer
PopupOnNotified(id, replaced, notification) ==
  /\ notifications' = PopupNotifiedHandler(notifications, id, replaced, notification)
  /\ timers' = Append(timers, id)
  /\ freshNotificationsVisible' = FreshVisible(notifications', notificationCenterVisible)

\* Notifications (expiry revision), "resolved"
PopupOnResolved(id) ==
  /\ notifications' = PopupResolvedHandler(notifications, id)
  /\ freshNotificationsVisible' = FreshVisible(notifications', notificationCenterVisible)
  /\ UNCHANGED timers

\* Notifications (older revision), "notified"
OldPopupOnNotified(id, replaced, notification) ==
  /\ notificationsNoExpiry' =
       OldPopupNotifiedHandler(notificationsNoExpiry, id, replaced, notification)
  /\ windowVisibleNoExpiry' = OldPopupVisible(notificationsNoExpiry')

\* Notifications (older revision), "resolved"
OldPopupOnResolved(id) ==
  /\ notificationsNoExpiry' = OldPopupResolvedHandler(notificationsNoExpiry, id)
  /\ windowVisibleNoExpiry' = OldPopupVisible(notificationsNoExpiry')

\* A NotificationCard widget built for notification id by the s-th
\* notified event.
Widget(id, s) == [id |-> id, serial |-> s]

\* NotificationMap, "notified": (_, id) => this.set(id, NotificationCard(...));
\* the card's setup starts timeout(TIMEOUT_DELAY, () => this.delete(id)).
MapOnNotified(id, s) ==
  /\ map' = MapSet(map, id, Widget(id, s))
  /\ var' = MapValuesReversed(map')
  /\ mapTimers' = Append(mapTimers, id)

\* NotificationMap.delete(key), from "resolved" and from the timeout
MapOnDelete(key) ==
  /\ map' = MapDelete(map, key)
  /\ var' = MapValuesReversed(map')

\* ------------------------------------------------- shell with the center
\* The daemon emits notified(id, replaced); every handler fetches the new
\* notification with get_notification(id).
Notified(id, replaced, transient) ==
  /\ serial < MaxNotified
  /\ serial' = serial + 1
  /\ LET notification == Notification(id, serial + 1, transient) IN
       /\ CenterOnNotified(id, replaced, notification)
       /\ PopupOnNotified(id, replaced, notification)
       /\ OldPopupOnNotified(id, replaced, notification)
  /\ MapOnNotified(id, serial + 1)
  /\ emitted' = <<>>
  /\ calls' = <<>>
  /\ last' = Event("notified", id, replaced)
  /\ UNCHANGED routeVars
  /\ UNCHANGED <<instanceVars, bindingVars, widgetVars>>

\* All "resolved" handlers of the shell, for one resolved(id) signal.
ResolvedHandlers(id) ==
  /\ CenterOnResolved(id)
  /\ PopupOnResolved(id)
  /\ OldPopupOnResolved(id)
  /\ MapOnDelete(id)
  /\ UNCHANGED mapTimers

\* The daemon emits resolved(id) on its own (closed by the sender, expired).
Resolved(id) ==
  /\ ResolvedHandlers(id)
  /\ emitted' = <<>>
  /\ calls' = <<>>
  /\ last' = Event("resolved", id, FALSE)
  /\ UNCHANGED <<serial, routeVars>>
  /\ UNCHANGED <<instanceVars, bindingVars, widgetVars>>

\* Ids of the cards on screen: each card has a close button.
ShownIds ==
  {newNotifications[i].id : i \in 1..Len(newNotifications)}
  \cup {pastNotifications[i].notification.id : i \in 1..Len(pastNotifications)}
  \cup {notifications[i].id : i \in 1..Len(notifications)}
  \cup {notificationsNoExpiry[i].id : i \in 1..Len(notificationsNoExpiry)}
  \cup {map[i].key : i \in 1..Len(map)}

DaemonCall(op, id) == [op |-> op, id |-> id]

\* closeButton onClicked: n.dismiss().  The click handler itself changes no
\* list; the daemon emits resolved(id) for it and the handlers above run.
Dismiss(id) ==
  /\ id \in ShownIds
  /\ calls' = <<DaemonCall("dismiss", id)>>
  /\ ResolvedHandlers(id)
  /\ emitted' = <<>>
  /\ last' = Event("dismiss", id, FALSE)
  /\ UNCHANGED <<serial, routeVars>>
  /\ UNCHANGED <<instanceVars, bindingVars, widgetVars>>

\* variant for comparison: only the first entry's resolved(id) is handled
CenterResolveFirst(ids, ns, past, t) ==
  IF ids = <<>>
    THEN [new |-> ns, past |-> past]
    ELSE [new |-> CenterResolvedNew(ns, Head(ids)),
          past |-> CenterResolvedPast(past, ns, Head(ids), t)]

\* The lists after resolved(id) was handled for each id of ids in turn.
RECURSIVE CenterResolveEach(_, _, _, _)
CenterResolveEach(ids, ns, past, t) ==
  IF ids = <<>>
    THEN [new |-> ns, past |-> past]
    ELSE CenterResolveEach(Tail(ids), CenterResolvedNew(ns, Head(ids)),
                           CenterResolvedPast(past, ns, Head(ids), t), t)

RECURSIVE PopupResolveEach(_, _)
PopupResolveEach(ids, ns) ==
  IF ids = <<>> THEN ns ELSE PopupResolveEach(Tail(ids), PopupResolvedHandler(ns, Head(ids)))

RECURSIVE OldPopupResolveEach(_, _)
OldPopupResolveEach(ids, ns) ==
  IF ids = <<>> THEN ns
  ELSE OldPopupResolveEach(Tail(ids), OldPopupResolvedHandler(ns, Head(ids)))

RECURSIVE MapDeleteEach(_, _)
MapDeleteEach(ids, m) ==
  IF ids = <<>> THEN m ELSE MapDeleteEach(Tail(ids), MapDelete(m, Head(ids)))

\* "Clear all": newNotifications.get().forEach((n) => n.dismiss()), each
\* dismiss() answered by resolved(id) as in Dismiss
DismissAll ==
  LET ids == [i \in 1..Len(newNotifications) |-> newNotifications[i].id] IN
  /\ calls' = [i \in 1..Len(ids) |-> DaemonCall("dismiss", ids[i])]
  /\ \E t \in now..MaxTime :
       /\ t = now \/ \E i \in 1..Len(newNotifications) : ~newNotifications[i].transient
       /\ now' = t
       /\ newNotifications' = CenterResolveEach(ids, newNotifications, pastNotifications, t).new
       /\ pastNotifications' = CenterResolveEach(ids, newNotifications, pastNotifications, t).past
  /\ notifications' = PopupResolveEach(ids, notifications)
  /\ freshNotificationsVisible' = FreshVisible(notifications', notificationCenterVisible)
  /\ notificationsNoExpiry' = OldPopupResolveEach(ids, notificationsNoExpiry)
  /\ windowVisibleNoExpiry' = OldPopupVisible(notificationsNoExpiry')
  /\ map' = MapDeleteEach(ids, map)
  /\ var' = IF ids = <<>> THEN var ELSE MapValuesReversed(map')
  /\ emitted' = <<>>
  /\ last' = Event("dismissAll", 0, FALSE)
  /\ UNCHANGED <<serial, timers, mapTimers, routeVars>>
  /\ UNCHANGED <<instanceVars, bindingVars, widgetVars>>

\* variant for comparison: "Clear" empties the active list as well
ClearHistoryClearsBoth ==
  /\ pastNotifications' = <<>>
  /\ newNotifications' = <<>>
  /\ emitted' = <<>>
  /\ calls' = <<>>
  /\ last' = Event("clearHistory", 0, FALSE)
  /\ UNCHANGED <<serial, now, popupVars, oldPopupVars, routeVars, mapVars>>
  /\ UNCHANGED <<instanceVars, bindingVars, widgetVars>>

\* "Clear": setPastNotifications([])
ClearHistory ==
  /\ pastNotifications' = <<>>
  /\ emitted' = <<>>
  /\ calls' = <<>>
  /\ last' = Event("clearHistory", 0, FALSE)
  /\ UNCHANGED <<serial, now, newNotifications, popupVars, oldPopupVars,
                 routeVars, mapVars>>
  /\ UNCHANGED <<instanceVars, bindingVars, widgetVars>>

\* Notifications (expiry revision): the setTimeout callback for id runs
PopupOnTimeout(id) ==
  /\ notifications' = PopupExpire(notifications, id)
  /\ freshNotificationsVisible' = FreshVisible(notifications', notificationCenterVisible)

\* variant for comparison: expiry dismisses the notification at the daemon
TimeoutDismisses ==
  /\ timers # <<>> /\ mapTimers # <<>>
  /\ calls' = <<DaemonCall("dismiss", Head(timers))>>
  /\ CenterOnResolved(Head(timers))
  /\ PopupOnTimeout(Head(timers))
  /\ timers' = Tail(timers)
  /\ OldPopupOnResolved(Head(timers))
  /\ MapOnDelete(Head(mapTimers))
  /\ mapTimers' = Tail(mapTimers)
  /\ emitted' = <<>>
  /\ last' = Event("timeout", Head(timers), FALSE)
  /\ UNCHANGED <<serial, routeVars>>
  /\ UNCHANGED <<instanceVars, bindingVars, widgetVars>>

\* The expiry callbacks scheduled by the oldest notified event still
\* waiting run: the popup view's and NotificationMap's.
Timeout ==
  /\ timers # <<>> /\ mapTimers # <<>>
  /\ PopupOnTimeout(Head(timers))
  /\ timers' = Tail(timers)
  /\ MapOnDelete(Head(mapTimers))
  /\ mapTimers' = Tail(mapTimers)
  /\ emitted' = <<>>
  /\ calls' = <<>>
  /\ last' = Event("timeout", Head(timers), FALSE)
  /\ UNCHANGED <<serial, now, centerVars, oldPopupVars, routeVars>>
  /\ UNCHANGED <<instanceVars, bindingVars, widgetVars>>

\* ------------------------------------------------- shell without the center
\* The first shell entry point starts the bar tiles and the popup view
\* only: the daemon's signals reach the popup handlers alone.
NotifiedPopups(id, replaced, transient) ==
  /\ serial < MaxNotified
  /\ serial' = serial + 1
  /\ LET notification == Notification(id, serial + 1, transient) IN
       /\ PopupOnNotified(id, replaced, notification)
       /\ OldPopupOnNotified(id, replaced, notification)
  /\ emitted' = <<>>
  /\ calls' = <<>>
  /\ last' = Event("notified", id, replaced)
  /\ UNCHANGED <<now, centerVars, routeVars, mapVars>>
  /\ UNCHANGED <<instanceVars, bindingVars, widgetVars>>

ResolvedPopups(id) ==
  /\ PopupOnResolved(id)
  /\ OldPopupOnResolved(id)
  /\ emitted' = <<>>
  /\ calls' = <<>>
  /\ last' = Event("resolved", id, FALSE)
  /\ UNCHANGED <<serial, now, centerVars, routeVars, mapVars>>
  /\ UNCHANGED <<instanceVars, bindingVars, widgetVars>>

\* The oldest pending setTimeout callback of the popup view runs.
PopupTimeout ==
  /\ timers # <<>>
  /\ PopupOnTimeout(Head(timers))
  /\ timers' = Tail(timers)
  /\ emitted' = <<>>
  /\ calls' = <<>>
  /\ last' = Event("timeout", Head(timers), FALSE)
  /\ UNCHANGED <<serial, now, centerVars, oldPopupVars, routeVars, mapVars>>
  /\ UNCHANGED <<instanceVars, bindingVars, widgetVars>>

\* toggleNotificationCenter of the tile on monitor gdkmonitor; the popup's
\* computed visibility subscribes to notificationCenterVisible
ToggleNotificationCenter(gdkmonitor) ==
  /\ notificationCenterVisible' =
       ToggleVisible(gdkmonitor, notificationCenterMonitor, notificationCenterVisible)
  /\ notificationCenterMonitor' = gdkmonitor
  /\ emitted' = ToggleEmissions(gdkmonitor, notificationCenterMonitor, notificationCenterVisible)
  /\ freshNotificationsVisible' = FreshVisible(notifications, notificationCenterVisible')
  /\ calls' = <<>>
  /\ last' = Event("toggle", gdkmonitor, FALSE)
  /\ UNCHANGED <<serial, now, centerVars, notifications, timers, oldPopupVars, mapVars>>
  /\ UNCHANGED <<instanceVars, bindingVars, widgetVars>>

\* ------------------------------------------------- astal shell: NotificationMap
\* The astal shell's main() builds the popup window, which makes its own
\* NotificationMap (map, var, mapTimers).  The request handler uses
\* NotificationMap.get_default(), which makes the static instance on its
\* first call; that instance connects to the daemon when it is made.
\* daemon[id] is the number of actions of the notification the daemon
\* holds for id.

\* [...this.map.keys()].reverse()[0], for a map that is not empty
TopKey(m) == m[Len(m)].key

\* variant for comparison: the top notification's action list is not looked at
ActivateInvokesAnyTop(m, d) == m # <<>>

\* activateTopNotification: id != null and notification.actions[0] is there
ActivateInvokes(m, d) == m # <<>> /\ d[TopKey(m)] > 0

\* notification.invoke(action.id) for the k-th action of id's notification
InvokeCall(id, k) == [op |-> "invoke", id |-> id, action |-> k]

\* the static instance's "notified" handler, once the instance is made
InstanceOnNotified(id, s) ==
  IF instanceMade
    THEN /\ instanceMap' = MapSet(instanceMap, id, Widget(id, s))
         /\ instanceTimers' = Append(instanceTimers, id)
    ELSE UNCHANGED <<instanceMap, instanceTimers>>

\* the static instance's delete(key)
InstanceOnDelete(key) == instanceMap' = MapDelete(instanceMap, key)

\* notified(id): the daemon holds a notification with the given number of actions
MapNotified(id, actions) ==
  /\ serial < MaxMapNotified
  /\ serial' = serial + 1
  /\ daemon' = [daemon EXCEPT ![id] = actions]
  /\ MapOnNotified(id, serial + 1)
  /\ InstanceOnNotified(id, serial + 1)
  /\ emitted' = <<>>
  /\ calls' = <<>>
  /\ last' = Event("notified", id, FALSE)
  /\ UNCHANGED <<now, centerVars, popupVars, oldPopupVars, routeVars,
                 instanceMade, activateDeletes, response, bindingVars, widgetVars>>

MapResolved(id) ==
  /\ daemon' = [daemon EXCEPT ![id] = -1]
  /\ MapOnDelete(id)
  /\ InstanceOnDelete(id)
  /\ emitted' = <<>>
  /\ calls' = <<>>
  /\ last' = Event("resolved", id, FALSE)
  /\ UNCHANGED <<serial, now, centerVars, popupVars, oldPopupVars, routeVars, mapTimers,
                 instanceMade, instanceTimers, activateDeletes, response, bindingVars, widgetVars>>

\* The timeout callbacks started by the oldest notified event still
\* waiting run: this.delete(id) in the popup window's map and, when the
\* static instance was already made at that event (its queue is then as
\* long as the window's), in the static instance as well.
MapTimeout ==
  /\ mapTimers # <<>>
  /\ MapOnDelete(Head(mapTimers))
  /\ mapTimers' = Tail(mapTimers)
  /\ IF Len(instanceTimers) = Len(mapTimers)
       THEN /\ InstanceOnDelete(Head(instanceTimers))
            /\ instanceTimers' = Tail(instanceTimers)
       ELSE UNCHANGED <<instanceMap, instanceTimers>>
  /\ emitted' = <<>>
  /\ calls' = <<>>
  /\ last' = Event("timeout", Head(mapTimers), FALSE)
  /\ UNCHANGED <<serial, now, centerVars, popupVars, oldPopupVars, routeVars,
                 daemon, instanceMade, activateDeletes, response, bindingVars, widgetVars>>

\* requestHandler("noti-act"): NotificationMap.get_default()
\* .activateTopNotification(); res("done").  The file holds two copies of
\* activateTopNotification, one deleting the entry after the invoke and
\* one not; which copy the shell runs is settled when the instance is made.
RequestNotiAct ==
  /\ instanceMade' = TRUE
  /\ activateDeletes' \in (IF instanceMade THEN {activateDeletes} ELSE BOOLEAN)
  /\ IF ActivateInvokes(instanceMap, daemon)
       THEN /\ calls' = <<InvokeCall(TopKey(instanceMap), 1)>>
            /\ instanceMap' = IF activateDeletes'
                                THEN MapDelete(instanceMap, TopKey(instanceMap))
                                ELSE instanceMap
       ELSE /\ calls' = <<>>
            /\ instanceMap' = instanceMap
  /\ response' = "done"
  /\ emitted' = <<>>
  /\ last' = Event("noti-act", 0, FALSE)
  /\ UNCHANGED <<serial, now, centerVars, popupVars, oldPopupVars, routeVars, mapVars,
                 daemon, instanceTimers, bindingVars, widgetVars>>

\* cardBody onClicked of a card in the popup window: invoke the first
\* action, then onActionExecution: this.delete(id)
CardBodyClick(id) ==
  /\ MapHas(map, id) /\ daemon[id] > 0
  /\ calls' = <<InvokeCall(id, 1)>>
  /\ MapOnDelete(id)
  /\ emitted' = <<>>
  /\ last' = Event("cardBody", id, FALSE)
  /\ UNCHANGED <<serial, now, centerVars, popupVars, oldPopupVars, routeVars, mapTimers,
                 instanceVars, bindingVars, widgetVars>>

\* onClicked of the k-th button of the card's action row (shown when the
\* notification has more than one action): n.invoke(id)
CardActionClick(id, k) ==
  /\ MapHas(map, id) /\ daemon[id] > 1 /\ k \in 1..daemon[id]
  /\ calls' = <<InvokeCall(id, k)>>
  /\ emitted' = <<>>
  /\ last' = Event("cardAction", id, FALSE)
  /\ UNCHANGED <<serial, now, centerVars, popupVars, oldPopupVars, routeVars, mapVars,
                 instanceVars, bindingVars, widgetVars>>

\* ------------------------------------------------- reactive state: Binding
\* Binding keeps the value under a mutex and an unbounded async channel.
\* set stores the value and sends it; every subscribe spawns a future on
\* the main loop that receives from a clone of the one receiver and calls
\* the callback.  A value sent on the channel is received by one receiver.

\* the mapper handed to Binding::map (an example that is not the identity)
Mapper(v) == v + 1

\* Binding::set
BindingSet(v) ==
  /\ sets < MaxSets
  /\ sets' = sets + 1
  /\ bindingValue' = v
  /\ channel' = Append(channel, v)
  /\ emitted' = <<>>
  /\ calls' = <<>>
  /\ last' = Event("set", v, FALSE)
  /\ UNCHANGED <<serial, now, centerVars, popupVars, oldPopupVars, routeVars, mapVars,
                 instanceVars, widgetVars, subscribers, received, hasMapped, mapped, mappedChannel>>

\* Binding::subscribe: one more receiving future
BindingSubscribe ==
  /\ subscribers < MaxSubscribers
  /\ subscribers' = subscribers + 1
  /\ received' = Append(received, <<>>)
  /\ emitted' = <<>>
  /\ calls' = <<>>
  /\ last' = Event("subscribe", subscribers + 1, FALSE)
  /\ UNCHANGED <<serial, now, centerVars, popupVars, oldPopupVars, routeVars, mapVars,
                 instanceVars, widgetVars, bindingValue, channel, hasMapped, mapped, mappedChannel, sets>>

\* Binding::map: the mapped Binding starts at mapper(get()) and a
\* subscription of the source sets it
BindingMap ==
  /\ ~hasMapped
  /\ hasMapped' = TRUE
  /\ mapped' = Mapper(bindingValue)
  /\ emitted' = <<>>
  /\ calls' = <<>>
  /\ last' = Event("map", 0, FALSE)
  /\ UNCHANGED <<serial, now, centerVars, popupVars, oldPopupVars, routeVars, mapVars,
                 instanceVars, widgetVars, bindingValue, channel, subscribers, received, mappedChannel, sets>>

\* The main loop runs the future of subscriber i: receiver.recv() yields
\* the oldest value of the channel and the callback is called with it.
BindingDeliver(i) ==
  /\ i \in 1..subscribers
  /\ channel # <<>>
  /\ received' = [received EXCEPT ![i] = Append(@, Head(channel))]
  /\ channel' = Tail(channel)
  /\ emitted' = <<>>
  /\ calls' = <<>>
  /\ last' = Event("deliver", i, FALSE)
  /\ UNCHANGED <<serial, now, centerVars, popupVars, oldPopupVars, routeVars, mapVars,
                 instanceVars, widgetVars, bindingValue, subscribers, hasMapped, mapped, mappedChannel, sets>>

\* The main loop runs the future of the map subscription:
\* mapped.set(mapper(&value))
MappedDeliver ==
  /\ hasMapped
  /\ channel # <<>>
  /\ mapped' = Mapper(Head(channel))
  /\ mappedChannel' = Append(mappedChannel, mapped')
  /\ channel' = Tail(channel)
  /\ emitted' = <<>>
  /\ calls' = <<>>
  /\ last' = Event("mapped", 0, FALSE)
  /\ UNCHANGED <<serial, now, centerVars, popupVars, oldPopupVars, routeVars, mapVars,
                 instanceVars, widgetVars, bindingValue, subscribers, received, hasMapped, sets>>

\* ------------------------------------------------- specifications
Next ==
  \/ \E id \in Ids, replaced \in BOOLEAN, transient \in BOOLEAN : Notified(id, replaced, transient)
  \/ \E id \in Ids : Resolved(id)
  \/ \E id \in Ids : Dismiss(id)
  \/ DismissAll
  \/ ClearHistory
  \/ Timeout

\* daemon signals and expiry callbacks only: nobody clicks
EventNext ==
  \/ \E id \in Ids, replaced \in BOOLEAN, transient \in BOOLEAN : Notified(id, replaced, transient)
  \/ \E id \in Ids : Resolved(id)
  \/ Timeout

\* daemon signals and the center's buttons: no expiry callback runs
UserNext ==
  \/ \E id \in Ids, replaced \in BOOLEAN, transient \in BOOLEAN : Notified(id, replaced, transient)
  \/ \E id \in Ids : Resolved(id)
  \/ \E id \in Ids : Dismiss(id)
  \/ DismissAll
  \/ ClearHistory

RouteNext ==
  \/ \E id \in Ids, replaced \in BOOLEAN, transient \in BOOLEAN :
       NotifiedPopups(id, replaced, transient)
  \/ \E id \in Ids : ResolvedPopups(id)
  \/ PopupTimeout
  \/ \E gdkmonitor \in Monitors : ToggleNotificationCenter(gdkmonitor)

PopupNext ==
  \/ \E id \in Ids, replaced \in BOOLEAN, transient \in BOOLEAN :
       NotifiedPopups(id, replaced, transient)
  \/ \E id \in Ids : ResolvedPopups(id)
  \/ PopupTimeout

BindingNext ==
  \/ \E v \in 0..MaxValue : BindingSet(v)
  \/ BindingSubscribe
  \/ BindingMap
  \/ \E i \in 1..MaxSubscribers : BindingDeliver(i)
  \/ MappedDeliver

MapNext ==
  \/ \E id \in Ids, actions \in 0..MaxActions : MapNotified(id, actions)
  \/ \E id \in Ids : MapResolved(id)
  \/ MapTimeout
  \/ RequestNotiAct
  \/ \E id \in Ids : CardBodyClick(id)
  \/ \E id \in Ids, k \in 1..MaxActions : CardActionClick(id, k)

\* the notification center and every popup store, on one event stream
Spec == Init /\ [][Next]_vars

\* the same stores, driven by the daemon and the timers alone
SpecEvents == Init /\ [][EventNext]_vars

\* the same stores, driven by the daemon and the center's buttons alone
SpecUser == Init /\ [][UserNext]_vars

\* the shell's tile and popup views: center visibility routing
SpecRoute == Init /\ [][RouteNext]_vars

\* the popup views alone, with every started setTimeout callback run in the end
SpecPopupLive == Init /\ [][PopupNext]_vars /\ WF_vars(PopupTimeout)

\* a Binding, its subscribers and a mapped Binding
SpecBinding == Init /\ [][BindingNext]_vars

\* the astal shell: NotificationMap popups and the noti-act request
SpecMap == Init /\ [][MapNext]_vars

\* ------------------------------------------------- popup view: cleanup
\* onCleanup of the popup view: both signal handlers are disconnected; the
\* setTimeout callbacks already started stay pending.
PopupCleanup ==
  /\ ~cleanedUp
  /\ cleanedUp' = TRUE
  /\ emitted' = <<>>
  /\ calls' = <<>>
  /\ last' = Event("cleanup", 0, FALSE)
  /\ UNCHANGED <<serial, now, centerVars, popupVars, oldPopupVars, routeVars, mapVars>>
  /\ UNCHANGED <<instanceVars, bindingVars, variantVars, fadeVars, iconVars>>

\* notified(id, replaced) while the handlers are connected
ConnectedNotified(id, replaced, transient) ==
  /\ ~cleanedUp
  /\ NotifiedPopups(id, replaced, transient)

\* resolved(id) while the handlers are connected
ConnectedResolved(id) ==
  /\ ~cleanedUp
  /\ ResolvedPopups(id)

\* notified(id, replaced) after the cleanup: no handler of the view runs
DisconnectedNotified(id, replaced) ==
  /\ cleanedUp
  /\ serial < MaxNotified
  /\ serial' = serial + 1
  /\ emitted' = <<>>
  /\ calls' = <<>>
  /\ last' = Event("notified", id, replaced)
  /\ UNCHANGED <<now, centerVars, popupVars, oldPopupVars, routeVars, mapVars>>
  /\ UNCHANGED <<instanceVars, bindingVars, widgetVars>>

\* resolved(id) after the cleanup: no handler of the view runs
DisconnectedResolved(id) ==
  /\ cleanedUp
  /\ emitted' = <<>>
  /\ calls' = <<>>
  /\ last' = Event("resolved", id, FALSE)
  /\ UNCHANGED <<serial, now, centerVars, popupVars, oldPopupVars, routeVars, mapVars>>
  /\ UNCHANGED <<instanceVars, bindingVars, widgetVars>>

CleanupNext ==
  \/ \E id \in Ids, replaced \in BOOLEAN, transient \in BOOLEAN :
       ConnectedNotified(id, replaced, transient)
  \/ \E id \in Ids : ConnectedResolved(id)
  \/ PopupTimeout
  \/ PopupCleanup
  \/ \E id \in Ids, replaced \in BOOLEAN : DisconnectedNotified(id, replaced)
  \/ \E id \in Ids : DisconnectedResolved(id)

\* the popup view over its whole life: connected, then cleaned up
SpecCleanup == Init /\ [][CleanupNext]_vars

\* ------------------------------------------------- center without history
\* notifiedHandler of the center without history: a replacement of a listed
\* id goes in place; any other notification is prepended unless transient
VariantNotifiedHandler(ns, id, replaced, notification) ==
  IF replaced /\ HasId(ns, id)
    THEN ReplaceById(ns, id, notification)
    ELSE IF ~notification.transient
      THEN Prepend(ns, notification)
      ELSE ns

\* resolvedHandler of the center without history
VariantResolvedHandler(ns, id) == RemoveById(ns, id)

\* updateCount: notifd.get_notifications().filter((n) => !n.transient).length
PersistedCount(ns) == Cardinality({i \in 1..Len(ns) : ~ns[i].transient})

\* The daemon keeps the notification of a notified event under its id.
DaemonStore(ns, id, notification) ==
  IF HasId(ns, id) THEN ReplaceById(ns, id, notification) ELSE Append(ns, notification)

\* The component function runs: createState(notifd.get_notifications())
VariantConstruct ==
  /\ ~centerStarted
  /\ centerStarted' = TRUE
  /\ newNotificationsNoHistory' = daemonNotifications
  /\ emitted' = <<>>
  /\ calls' = <<>>
  /\ last' = Event("construct", 0, FALSE)
  /\ UNCHANGED <<daemonNotifications, unreadCount>>
  /\ UNCHANGED <<serial, now, centerVars, popupVars, oldPopupVars, routeVars, mapVars>>
  /\ UNCHANGED <<instanceVars, bindingVars, cleanedUp, fadeVars, iconVars>>

\* The daemon emits notified(id, replaced): replaced tells that it knew the
\* id. The tile counts; the center's handler runs once it is connected.
VariantNotified(id, transient) ==
  /\ serial < MaxNotified
  /\ serial' = serial + 1
  /\ LET replaced == HasId(daemonNotifications, id)
         notification == Notification(id, serial + 1, transient) IN
       /\ daemonNotifications' = DaemonStore(daemonNotifications, id, notification)
       /\ newNotificationsNoHistory' =
            IF centerStarted
              THEN VariantNotifiedHandler(newNotificationsNoHistory, id, replaced, notification)
              ELSE newNotificationsNoHistory
       /\ last' = Event("notified", id, replaced)
  /\ unreadCount' = PersistedCount(daemonNotifications')
  /\ emitted' = <<>>
  /\ calls' = <<>>
  /\ UNCHANGED centerStarted
  /\ UNCHANGED <<now, centerVars, popupVars, oldPopupVars, routeVars, mapVars>>
  /\ UNCHANGED <<instanceVars, bindingVars, cleanedUp, fadeVars, iconVars>>

\* The daemon emits resolved(id) for a notification it holds.
VariantResolved(id) ==
  /\ HasId(daemonNotifications, id)
  /\ daemonNotifications' = RemoveById(daemonNotifications, id)
  /\ newNotificationsNoHistory' =
       IF centerStarted
         THEN VariantResolvedHandler(newNotificationsNoHistory, id)
         ELSE newNotificationsNoHistory
  /\ unreadCount' = PersistedCount(daemonNotifications')
  /\ emitted' = <<>>
  /\ calls' = <<>>
  /\ last' = Event("resolved", id, FALSE)
  /\ UNCHANGED centerStarted
  /\ UNCHANGED <<serial, now, centerVars, popupVars, oldPopupVars, routeVars, mapVars>>
  /\ UNCHANGED <<instanceVars, bindingVars, cleanedUp, fadeVars, iconVars>>

VariantNext ==
  \/ VariantConstruct
  \/ \E id \in Ids, transient \in BOOLEAN : VariantNotified(id, transient)
  \/ \E id \in Ids : VariantResolved(id)

\* the center without history and the tile's count, on the daemon's signals
SpecVariant == Init /\ [][VariantNext]_vars

\* ------------------------------------------------- volume / brightness fade
\* variant for comparison: the callback does not look at the elapsed time
FadeElapsedAlways(t, lastChange) == TRUE

\* variant for comparison: the callback asks for more than the delay
FadeElapsedStrict(t, lastChange) == t - lastChange > FadeThreshold

\* Date.now() - lastChangeTime >= 3000
FadeElapsed(t, lastChange) == t - lastChange >= FadeThreshold

\* The subscribed value changes: the class turns bright, the time is
\* noted and a timeout(3000) callback is started.
FadeChange ==
  /\ changes < MaxChanges
  /\ clock + FadeDelay + Tick <= MaxClock
  /\ changes' = changes + 1
  /\ extraClasses' = "bright"
  /\ lastChangeTime' = clock
  /\ fadeTimers' = Append(fadeTimers, clock + FadeDelay)
  /\ last' = Event("change", clock, FALSE)
  /\ UNCHANGED clock
  /\ UNCHANGED <<shellVars, cleanedUp, variantVars, iconVars>>

\* The oldest timeout(3000) callback runs, at its due time or later.
FadeTimeout ==
  /\ fadeTimers # <<>>
  /\ clock >= Head(fadeTimers)
  /\ extraClasses' = IF FadeElapsed(clock, lastChangeTime) THEN "dim" ELSE extraClasses
  /\ fadeTimers' = Tail(fadeTimers)
  /\ last' = Event("fade", Head(fadeTimers), FALSE)
  /\ UNCHANGED <<lastChangeTime, clock, changes>>
  /\ UNCHANGED <<shellVars, cleanedUp, variantVars, iconVars>>

\* Time passes.
ClockTick ==
  /\ clock + Tick <= MaxClock
  /\ clock' = clock + Tick
  /\ last' = Event("tick", clock + Tick, FALSE)
  /\ UNCHANGED <<extraClasses, lastChangeTime, fadeTimers, changes>>
  /\ UNCHANGED <<shellVars, cleanedUp, variantVars, iconVars>>

FadeNext ==
  \/ FadeChange
  \/ FadeTimeout
  \/ ClockTick

\* the fade of the volume and brightness widgets
SpecFade == Init /\ [][FadeNext]_vars

\* the same, with time passing and every due callback run by the main loop
SpecFadeLive == Init /\ [][FadeNext]_vars /\ WF_vars(ClockTick) /\ WF_vars(FadeTimeout)

\* ------------------------------------------------- icons
Min(a, b) == IF a <= b THEN a ELSE b

\* percentageToIconFromList: Math.min(listLength - 1,
\* Math.floor(listLength * percentage)), for the percentage p / PercentScale
PercentageToIndex(p, n) == Min(n - 1, (n * p) \div PercentScale)

\* wifi?.strength || 0 / 100: the division binds tighter than ||, so the
\* value is the strength itself unless that is 0; in units of 1 / PercentScale
StrengthArgument(s) ==
  IF s # 0 THEN s * PercentScale ELSE (0 * PercentScale) \div StrengthDivisor

Primaries == {"UNKNOWN", "WIRED", "WIFI"}
States == {"ASLEEP", "CONNECTING", "DISCONNECTED", "DISCONNECTING",
           "CONNECTED_GLOBAL", "CONNECTED_LOCAL", "CONNECTED_SITE", "UNKNOWN"}
Connectivities == {"FULL", "LIMITED", "PORTAL", "UNKNOWN", "NONE"}
Strengths == {k * StrengthStep : k \in 0..(MaxStrength \div StrengthStep)}

\* An icon: the list or single icon it is taken from, and the index in a list.
Icon(list, i) == [list |-> list, index |-> i]

\* getNetworkIcon
GetNetworkIcon(connectivity, primary, state, s) ==
  IF primary = "UNKNOWN" THEN Icon("wired.disabled", 0)
  ELSE
    LET wifiConnectedIcon ==
          Icon("wifi.connected", PercentageToIndex(StrengthArgument(s), WifiIcons))
        wifiConnectedPacketLossIcon ==
          Icon("wifi.packetLoss", PercentageToIndex(StrengthArgument(s), WifiIcons))
    IN CASE state = "ASLEEP" ->
              IF primary = "WIRED" THEN Icon("wired.disabled", 0) ELSE Icon("wifi.disabled", 0)
         [] state \in {"CONNECTING", "DISCONNECTED", "DISCONNECTING"} ->
              IF primary = "WIRED" THEN Icon("wired.disabled", 0) ELSE Icon("wifi.disconnected", 0)
         [] state \in {"CONNECTED_GLOBAL", "CONNECTED_LOCAL", "CONNECTED_SITE"} ->
              IF primary = "WIRED" THEN Icon("wired.connected", 0)
              ELSE (CASE connectivity = "FULL" -> wifiConnectedIcon
                      [] connectivity \in {"LIMITED", "PORTAL", "UNKNOWN"} ->
                           wifiConnectedPacketLossIcon
                      [] connectivity = "NONE" -> Icon("wifi.disconnected", 0)
                      [] OTHER -> Icon("wifi.unknown", 0))
         [] state = "UNKNOWN" ->
              IF primary = "WIRED" THEN Icon("wired.unknown", 0) ELSE Icon("wifi.unknown", 0)

\* A widget calls percentageToIconFromList(p / PercentScale, icons) with a
\* list of n icons.
IconFromList(p, n) ==
  /\ percentage' = p
  /\ listLength' = n
  /\ index' = PercentageToIndex(p, n)
  /\ last' = Event("icon", 0, FALSE)
  /\ UNCHANGED <<network, strength, networkIcon>>
  /\ UNCHANGED <<shellVars, cleanedUp, variantVars, fadeVars>>

\* The network tile calls getNetworkIcon with wifi.strength = s.
NetworkIcon(connectivity, primary, state, s) ==
  /\ network' = [connectivity |-> connectivity, primary |-> primary, state |-> state]
  /\ strength' = s
  /\ networkIcon' = GetNetworkIcon(connectivity, primary, state, s)
  /\ last' = Event("networkIcon", 0, FALSE)
  /\ UNCHANGED <<percentage, listLength, index>>
  /\ UNCHANGED <<shellVars, cleanedUp, variantVars, fadeVars>>

IconNext ==
  \/ \E p \in 0..PercentScale, n \in 1..MaxIcons : IconFromList(p, n)
  \/ \E connectivity \in Connectivities, primary \in Primaries, state \in States,
        s \in Strengths : NetworkIcon(connectivity, primary, state, s)

\* the icon functions, applied to every input of the bounded sets
SpecIcons == Init /\ [][IconNext]_vars

\* ------------------------------------------------- claims
UniqueIds(ns) == \A i, j \in 1..Len(ns) : ns[i].id = ns[j].id => i = j

\* C1: whatever notified/resolved events the daemon sends, the center's
\* list and the popup views' lists hold at most one entry per id.
C1_AtMostOneEntryPerId ==
  /\ UniqueIds(newNotifications)
  /\ UniqueIds(notifications)
  /\ UniqueIds(notificationsNoExpiry)

\* C2: notified(id, replaced = true) for an id in the center's list puts the
\* new notification at that id's index, keeps the length and leaves every
\* other entry where it was; NotificationMap.set on a key already in the
\* map does the same to the map and to the list it exposes.
C2_ReplaceKeepsPosition ==
  [][last'.op = "notified" =>
       LET id == last'.arg IN
       /\ (last'.replaced /\ HasId(newNotifications, id)) =>
            /\ Len(newNotifications') = Len(newNotifications)
            /\ \A i \in 1..Len(newNotifications) :
                 IF newNotifications[i].id = id
                   THEN newNotifications'[i].id = id /\ newNotifications'[i].serial = serial'
                   ELSE newNotifications'[i] = newNotifications[i]
       /\ MapHas(map, id) =>
            /\ Len(map') = Len(map) /\ Len(var') = Len(var)
            /\ \A i \in 1..Len(map) :
                 IF map[i].key = id
                   THEN map'[i].key = id /\ map'[i].value.serial = serial'
                   ELSE map'[i] = map[i]
            /\ \A i \in 1..Len(var) :
                 IF var[i].id = id
                   THEN var'[i].id = id /\ var'[i].serial = serial'
                   ELSE var'[i] = var[i]
  ]_vars

\* C2 witness: [B, A] became [B, A'] in the center, and the map replaced
\* its older key under a newer one.
C2_Witness ==
  /\ last.op = "notified" /\ last.replaced
  /\ Len(newNotifications) = 2
  /\ newNotifications[1].id # last.arg
  /\ newNotifications[2].id = last.arg /\ newNotifications[2].serial = serial
  /\ Len(map) = 2 /\ map[1].key = last.arg /\ map[1].value.serial = serial

\* C3: resolved(id) for an id in the center's list removes it; a record of
\* the entry with the time read goes to the front of the history when the
\* entry is not transient, and the history is untouched when it is.
C3_ResolveMovesToHistory ==
  [][(last'.op \in {"resolved", "dismiss"} /\ HasId(newNotifications, last'.arg)) =>
       LET entry == Find(newNotifications, last'.arg) IN
       /\ ~HasId(newNotifications', last'.arg)
       /\ IF entry.transient
            THEN pastNotifications' = pastNotifications
            ELSE pastNotifications' =
                   <<[notification |-> entry, resolvedAt |-> now']>> \o pastNotifications
  ]_vars

\* C3 witness: a resolved non-transient entry heads a history of two.
C3_Witness ==
  /\ last.op = "resolved"
  /\ Len(pastNotifications) = 2
  /\ pastNotifications[1].notification.id = last.arg
  /\ ~pastNotifications[1].notification.transient
  /\ pastNotifications[1].resolvedAt = now
  /\ ~HasId(newNotifications, last.arg)

\* C4: a user dismiss (close button, "Clear all") takes the entry out of
\* the active list and leaves the history as long as it was, the daemon's
\* resolved(id) for the dismiss included.
C4_DismissLeavesHistory ==
  [][last'.op \in {"dismiss", "dismissAll"} =>
       /\ Len(pastNotifications') = Len(pastNotifications)
       /\ last'.op = "dismiss" => ~HasId(newNotifications', last'.arg)
       /\ last'.op = "dismissAll" => newNotifications' = <<>>
  ]_vars

\* C5: no notification is recorded in the history twice, a resolved id is
\* no longer listed, and resolved(id) for an id that is not listed (a
\* second resolve, a resolve after a dismiss) changes neither list.
C5_ResolveIdempotent ==
  [][/\ \A i, j \in 1..Len(pastNotifications') :
          pastNotifications'[i].notification = pastNotifications'[j].notification => i = j
     /\ last'.op \in {"resolved", "dismiss"} =>
          /\ ~HasId(newNotifications', last'.arg)
          /\ ~HasId(newNotifications, last'.arg) =>
               /\ pastNotifications' = pastNotifications
               /\ newNotifications' = newNotifications
  ]_vars

\* C5 witness: resolved(id) arrived again after id's record had been
\* written and another record had been put in front of it.
C5_Witness ==
  /\ last.op = "resolved"
  /\ Len(pastNotifications) = 2
  /\ pastNotifications[2].notification.id = last.arg
  /\ pastNotifications[1].notification.id # last.arg
  /\ ~HasId(newNotifications, last.arg)

\* C6: a toggle from monitor m hides the center exactly when it was
\* visible on m, shows it otherwise, and always leaves activeMonitor = m.
C6_ToggleRoutes ==
  [][last'.op = "toggle" =>
       /\ notificationCenterVisible' =
            ~(notificationCenterVisible /\ notificationCenterMonitor = last'.arg)
       /\ notificationCenterMonitor' = last'.arg
  ]_vars

\* C6 witness: the center was visible on another monitor and the toggle
\* only moved it (the monitor changed, the visible flag did not).
C6_Witness ==
  /\ last.op = "toggle" /\ last.arg = 2
  /\ notificationCenterVisible /\ notificationCenterMonitor = 2
  /\ emitted = <<[visible |-> TRUE, monitor |-> 2]>>

\* C7: during a toggle no subscriber sees the new visible value together
\* with the old monitor.
C7_ToggleUpdatesTogether ==
  \A i \in 1..Len(emitted) :
    emitted[i].visible = notificationCenterVisible =>
      emitted[i].monitor = notificationCenterMonitor

\* C8: after a replace of an entry still shown, only the timer scheduled
\* last for the id removes it: an expiry callback removes an entry of the
\* popup list only if no later callback for the same id is still waiting.
C8_LastTimerWins ==
  [][(/\ last'.op = "timeout"
       /\ UniqueIds(notifications)
       /\ HasId(notifications, last'.arg)
       /\ ~HasId(notifications', last'.arg))
      => \A i \in 1..Len(timers') : timers'[i] # last'.arg
  ]_vars

\* C9: a popup expiry filters the id out of the popup's own list (and drops
\* the id's card from NotificationMap) and does nothing else: the center's
\* list and history stay as they are and the daemon is not called.
C9_ExpiryOnlyHidesPopup ==
  [][last'.op = "timeout" =>
       /\ notifications' = RemoveById(notifications, last'.arg)
       /\ newNotifications' = newNotifications
       /\ pastNotifications' = pastNotifications
       /\ notificationsNoExpiry' = notificationsNoExpiry
       /\ map' = MapDelete(map, last'.arg)
       /\ calls' = <<>>
  ]_vars

\* C9 witness: the expired entry left the popup and is still in the center.
C9_Witness ==
  /\ last.op = "timeout"
  /\ HasId(newNotifications, last.arg)
  /\ ~HasId(notifications, last.arg)
  /\ ~MapHas(map, last.arg)

\* C10: the popup window is visible exactly when its list is non-empty and
\* the center is not visible.
C10_PopupHiddenWhileCenterOpen ==
  /\ freshNotificationsVisible = (Len(notifications) > 0 /\ ~notificationCenterVisible)
  /\ windowVisibleNoExpiry = (Len(notificationsNoExpiry) > 0 /\ ~notificationCenterVisible)

IdsOf(ns) == [i \in 1..Len(ns) |-> ns[i].id]

\* new is old without the entries of some ids, the rest in the old order
KeptInOrder(old, new) ==
  \E gone \in SUBSET Ids : new = SelectSeq(old, LAMBDA n : n.id \notin gone)

\* C11: the lists the views show are newest-arrival-first: a notified that
\* is not a replace-in-place puts its entry in front of all the others, a
\* replace-in-place leaves the order of ids as it was, and every other
\* operation only takes entries out, the rest keeping their order.
C11_NewestArrivalFirst ==
  [][LET id == last'.arg IN
     IF last'.op = "notified"
       THEN /\ IF last'.replaced /\ HasId(newNotifications, id)
                 THEN IdsOf(newNotifications') = IdsOf(newNotifications)
                 ELSE /\ newNotifications'[1].id = id
                      /\ Tail(newNotifications') = newNotifications
            /\ IF last'.replaced /\ HasId(notifications, id)
                 THEN IdsOf(notifications') = IdsOf(notifications)
                 ELSE /\ notifications'[1].id = id
                      /\ Tail(notifications') = notifications
            /\ IF MapHas(map, id)
                 THEN IdsOf(var') = IdsOf(var)
                 ELSE var'[1].id = id /\ Tail(var') = var
       ELSE /\ KeptInOrder(newNotifications, newNotifications')
            /\ KeptInOrder(notifications, notifications')
            /\ KeptInOrder(var, var')
  ]_vars

\* C11 witness: the later of two arrivals stands first in every list after
\* the earlier one was replaced in place by a newer notification object.
C11_Witness ==
  /\ last.op = "notified" /\ last.replaced
  /\ IdsOf(newNotifications) = IdsOf(notifications)
  /\ Len(notifications) = 2 /\ Len(var) = 2
  /\ notifications[2].id = last.arg
  /\ notifications[1].serial < notifications[2].serial
  /\ var[1].id = notifications[1].id /\ var[2].serial = serial

\* C12: the history is newest-resolved-first: no record has a resolvedAt
\* smaller than that of a record after it (the clock read for resolvedAt
\* does not run backwards).
C12_HistoryNewestResolvedFirst ==
  \A i, j \in 1..Len(pastNotifications) :
    i < j => pastNotifications[i].resolvedAt >= pastNotifications[j].resolvedAt

\* C12 witness: two records resolved at different times, the later first.
C12_Witness ==
  /\ Len(pastNotifications) = 2
  /\ pastNotifications[1].resolvedAt > pastNotifications[2].resolvedAt

\* C13: every noti-act request, the first one included, made while the
\* most recently arrived notification of the popup window has an action,
\* invokes that notification's first action and is answered "done".
C13_NotiActInvokesTop ==
  [][(last'.op = "noti-act" /\ map # <<>> /\ daemon[TopKey(map)] > 0) =>
       /\ calls' = <<InvokeCall(TopKey(map), 1)>>
       /\ response' = "done"
  ]_vars

\* C14: invoking an action of a notification shown in the popup window
\* (card body, action button, activateTopNotification) calls the daemon's
\* invoke and takes the entry out of the popup list in the same step.
C14_ActionRemovesPopup ==
  [][/\ last'.op \in {"cardBody", "cardAction"} =>
          /\ Len(calls') = 1 /\ calls'[1].op = "invoke" /\ calls'[1].id = last'.arg
          /\ ~MapHas(map', last'.arg)
     /\ (last'.op = "noti-act" /\ calls' # <<>>) =>
          /\ calls'[1].op = "invoke"
          /\ ~MapHas(map', calls'[1].id)
  ]_vars

\* C16: activateTopNotification with nothing tracked, or with a top
\* notification that has no action, calls no invoke and leaves the tracked
\* map and the exposed list as they are.
C16_ActivateWithoutActionIsNoOp ==
  [][(last'.op = "noti-act" /\ (instanceMap = <<>> \/ daemon[TopKey(instanceMap)] <= 0)) =>
       /\ calls' = <<>>
       /\ instanceMap' = instanceMap
       /\ map' = map /\ var' = var
  ]_vars

\* C16 witness: a request found a top notification without actions and
\* left it tracked.
C16_Witness ==
  /\ last.op = "noti-act"
  /\ instanceMap # <<>>
  /\ daemon[TopKey(instanceMap)] = 0
  /\ calls = <<>>

\* C15: resolved(id) for an id a store does not hold (removed before by a
\* resolve, an action or an expiry) changes nothing in that store: the
\* center's list and history, the popup lists and NotificationMap stay
\* as they are.
C15_ResolveUnknownIsNoOp ==
  [][last'.op = "resolved" =>
       LET id == last'.arg IN
       /\ ~HasId(newNotifications, id) =>
            /\ newNotifications' = newNotifications
            /\ pastNotifications' = pastNotifications
       /\ ~HasId(notifications, id) =>
            /\ notifications' = notifications
            /\ freshNotificationsVisible' = freshNotificationsVisible
       /\ ~HasId(notificationsNoExpiry, id) => notificationsNoExpiry' = notificationsNoExpiry
       /\ ~MapHas(map, id) => (map' = map /\ var' = var)
  ]_vars

\* C15 witness: an id no store holds was resolved while every store held
\* another one, after an expiry had taken it from the popup stores.
C15_Witness ==
  /\ last.op = "resolved"
  /\ ~HasId(newNotifications, last.arg) /\ newNotifications # <<>>
  /\ ~HasId(notifications, last.arg) /\ notifications # <<>>
  /\ ~MapHas(map, last.arg) /\ map # <<>>
  /\ Len(timers) < serial
  /\ \A i \in 1..Len(pastNotifications) : pastNotifications[i].notification.id # last.arg

\* C18: dismissAll calls dismiss once for each entry of the active list,
\* in list order, and the active list is empty once the resolved events
\* of those calls have been handled.
C18_DismissAllEmptiesActive ==
  [][last'.op = "dismissAll" =>
       /\ Len(calls') = Len(newNotifications)
       /\ \A i \in 1..Len(newNotifications) :
            calls'[i] = DaemonCall("dismiss", newNotifications[i].id)
       /\ newNotifications' = <<>>
  ]_vars

\* C18 witness: two entries of different ids were dismissed by one "Clear all".
C18_Witness ==
  /\ last.op = "dismissAll"
  /\ Len(calls) = 2 /\ calls[1].id # calls[2].id
  /\ newNotifications = <<>>

\* C17: every entry of the popup list has an expiry callback for its id
\* still waiting, so the list is empty once no callback waits; and with
\* the callbacks firing, every id listed leaves the list in the end, with
\* no resolved event from the daemon needed.
C17_PopupEntriesExpire ==
  /\ [](\A i \in 1..Len(notifications) :
          \E j \in 1..Len(timers) : timers[j] = notifications[i].id)
  /\ [](timers = <<>> => notifications = <<>>)
  /\ \A id \in Ids : HasId(notifications, id) ~> ~HasId(notifications, id)

\* C17 witness: the last waiting callback has run and emptied a popup list
\* that no resolved event had touched.
C17_Witness ==
  /\ last.op = "timeout"
  /\ timers = <<>> /\ notifications = <<>>
  /\ Len(notificationsNoExpiry) = serial /\ serial > 1

\* C19: every set of the source of a derived value recomputes it and emits
\* once before the setter returns: right after the set the mapped Binding
\* holds the mapper's value of what the source holds, sent once more.
C19_DerivedRecomputesOnSet ==
  [][(last'.op = "set" /\ hasMapped) =>
       /\ mapped' = Mapper(bindingValue')
       /\ Len(mappedChannel') = Len(mappedChannel) + 1
  ]_vars

\* C20: set(v) stores v and calls every subscriber with v before it
\* returns: with two or more subscribers, each has received v right after
\* the set, and get() returns v.
C20_SetReachesEverySubscriber ==
  [][(last'.op = "set" /\ subscribers >= 2) =>
       /\ bindingValue' = last'.arg
       /\ \A i \in 1..subscribers : received'[i] = Append(received[i], last'.arg)
  ]_vars

\* C21: NotificationMap's observable follows its map: the list get()
\* returns is the map's values, last inserted first; setting an id that is
\* in the map keeps the id's place in the list, and setting an id that is
\* not (never set, or deleted before) puts it first.
C21_VarFollowsMap ==
  /\ [](/\ Len(var) = Len(map)
        /\ \A i \in 1..Len(map) : var[i] = map[Len(map) + 1 - i].value)
  /\ [][last'.op = "notified" =>
          IF MapHas(map, last'.arg)
            THEN [i \in 1..Len(var') |-> var'[i].id] = [i \in 1..Len(var) |-> var[i].id]
            ELSE var'[1].id = last'.arg /\ Tail(var') = var
     ]_vars

\* C21 witness: an id set first, deleted and set again after another id
\* stands first in the list.
C21_Witness ==
  /\ last.op = "notified"
  /\ Len(timers) = 3
  /\ timers[1] = last.arg /\ timers[2] # last.arg /\ timers[3] = last.arg
  /\ Len(var) = 2 /\ var[1].id = last.arg
  /\ Len(map) = 2 /\ map[2].key = last.arg

\* index of the first entry of ns with the id, for a list that has it
FirstIndex(ns, id) ==
  CHOOSE i \in 1..Len(ns) : ns[i].id = id /\ \A j \in 1..(i - 1) : ns[j].id # id

\* C22: the popup list is a sub-view of the center's list: every id in the
\* popup list is in the center's list, and two ids of the popup list stand
\* in the center's list in the same order (stated for lists without
\* repeated ids).
C22_PopupIsSubViewOfCenter ==
  (UniqueIds(newNotifications) /\ UniqueIds(notifications)) =>
    /\ \A i \in 1..Len(notifications) : HasId(newNotifications, notifications[i].id)
    /\ \A i, j \in 1..Len(notifications) :
         i < j => FirstIndex(newNotifications, notifications[i].id)
                    < FirstIndex(newNotifications, notifications[j].id)

\* C23: once the popup view's cleanup has run, no step changes its
\* notification list any more: neither a daemon signal nor a callback that
\* was started before the cleanup.
C23_NoMutationAfterCleanup ==
  [][cleanedUp => notifications' = notifications]_vars

\* C24: the list of the center without history never holds an entry whose
\* transient flag is true.
C24_NoTransientListed ==
  \A i \in 1..Len(newNotificationsNoHistory) : ~newNotificationsNoHistory[i].transient

C26_EventuallyDim == (extraClasses = "bright") ~> (extraClasses = "dim")

\* after two changes the last callback has run and the class is dim
C26_Witness ==
  /\ last.op = "fade"
  /\ changes >= 2
  /\ fadeTimers = <<>>
  /\ last.arg = lastChangeTime + FadeDelay
  /\ extraClasses = "dim"

\* C27: clearHistory empties the history and leaves the active list as it
\* is; a notified event leaves the history as it is; the history gets
\* shorter by clearHistory only, and it changes otherwise only by records
\* put in front of it for persistent entries that a resolved handler run
\* takes off the active list (after resolved, dismiss or dismissAll).
C27_HistoryFrame ==
  /\ [][last'.op = "clearHistory"
          => (pastNotifications' = <<>> /\ newNotifications' = newNotifications)]_vars
  /\ [][last'.op = "notified" => pastNotifications' = pastNotifications]_vars
  /\ [][Len(pastNotifications') < Len(pastNotifications) => last'.op = "clearHistory"]_vars
  /\ [][(pastNotifications' # pastNotifications /\ last'.op # "clearHistory") =>
          LET k == Len(pastNotifications') - Len(pastNotifications) IN
            /\ last'.op \in {"resolved", "dismiss", "dismissAll"}
            /\ k > 0
            /\ SubSeq(pastNotifications', k + 1, Len(pastNotifications')) = pastNotifications
            /\ \A i \in 1..k :
                 /\ \E j \in 1..Len(newNotifications) :
                      newNotifications[j] = pastNotifications'[i].notification
                 /\ ~pastNotifications'[i].notification.transient
                 /\ ~HasId(newNotifications', pastNotifications'[i].notification.id)
       ]_vars

\* clearHistory has emptied a history that held a record, with an entry
\* still in the active list
C27_Witness ==
  /\ last.op = "clearHistory"
  /\ now > 0
  /\ pastNotifications = <<>>
  /\ newNotifications # <<>>

\* C28: percentageToIconFromList returns the icon at index
\* min(len - 1, floor(len * p)); getNetworkIcon for a connected Wi-Fi primary
\* with full connectivity returns the connected icon at index
\* min(4, floor(5 * s / 100)) for the strength s.
C28_IconIndex ==
  /\ index = Min(listLength - 1, (listLength * percentage) \div PercentScale)
  /\ (/\ network.primary = "WIFI"
      /\ network.state \in {"CONNECTED_GLOBAL", "CONNECTED_LOCAL", "CONNECTED_SITE"}
      /\ network.connectivity = "FULL")
       => networkIcon = Icon("wifi.connected", Min(4, (5 * strength) \div 100))

====
